---- MODULE Spec2Model ----
(***************************************************************************)
(* Model of src/main.js: the agent behaviour state machine (updateNPC and  *)
(* its four state handlers), the danger memory, the spatial selectors, the *)
(* chaos director with its timers, and the transient-entity registry.      *)
(*                                                                         *)
(* Units.  Time is counted in whole seconds: setTimeout delays, the        *)
(* panicTimer, the frame delta dt and the age of a danger-memory entry are *)
(* all integers in seconds.  alertLevel is counted in twentieths (20 is    *)
(* 1.0).  A point is <<x, y, z>> as in THREE.Vector3; every modelled point *)
(* lies on the street axis x = 0 except the explosion point, whose x is    *)
(* NaN (CONFIG.streetWidth is undefined at src/main.js:1525).  Distances   *)
(* are counted in tenths of a world unit.                                  *)
(***************************************************************************)
EXTENDS Integers, Sequences, FiniteSets, TLC

VARIABLES
    npc,                  \* the npc object, src/main.js:367-389, with body.position and body.velocity
    navNodes,             \* src/main.js:391
    coverSpots,           \* src/main.js:392
    loadedModelsDeclared, \* whether the host page gives the undeclared identifier loadedModels a value
    timers,               \* pending setTimeout / setInterval callbacks, in firing order
    physicsBodies,        \* src/main.js:363
    physicsMeshes,        \* src/main.js:363
    worldBodies,          \* bodies currently in the CANNON world
    sceneMeshes,          \* meshes currently in the THREE scene
    nextId,               \* identity of the next body/mesh pair created
    delta,                \* time since the last clock.getDelta(), src/main.js:1995
    budget,               \* chaos events and seconds the behaviour may still take (bounds)
    elapsed,              \* seconds since the last main event and since its second event (observation only)
    last                  \* what the last step was (observation only)

vars == <<npc, navNodes, coverSpots, loadedModelsDeclared, timers, physicsBodies,
          physicsMeshes, worldBodies, sceneMeshes, nextId, delta, budget, elapsed, last>>

-----------------------------------------------------------------------------
(* Bounds of the model *)

MaxEntities == 14     \* transient entities created in one behaviour
MaxChaos == 1         \* chaos events fired in one behaviour of Spec of unlimited length
QuickChaos == 2       \* chaos events fired in one behaviour of Spec of QuickSeconds seconds
QuickSeconds == 2     \* the length of such a behaviour
MaxBurst == 6         \* recording events fired in one behaviour of SpecMemory
BurstSeconds == 2     \* seconds one behaviour of SpecMemory lasts
MaxSpawns == 3        \* entities registered in one behaviour of SpecRegistry
MaxDirected == 3      \* chaos events fired in one behaviour of SpecDirector
ChainWatch == 5       \* elapsed stops counting here: no chain timer is longer than 4 s
MaxDelta == 1         \* seconds that may pass without a frame being drawn
MaxPanicTimer == 16   \* panicTimer += 4 is not taken beyond this

(* Program constants, in the units above *)

DtMax == 1            \* the clamp of dt at src/main.js:1995, scaled to the time unit
MemoryCap == 5        \* src/main.js:1738
PruneAge == 30        \* src/main.js:1341
AlertOne == 20        \* alertLevel 1.0
CompactEvery == 5     \* src/main.js:1977
DecayAfter == 10      \* src/main.js:1469
SweepFor == 8         \* src/main.js:1676

NaN == 0 - 1          \* the distance to or from a point with a NaN coordinate
Null == << >>         \* null / no target node

Min(a, b) == IF a < b THEN a ELSE b
Max(a, b) == IF a > b THEN a ELSE b
Abs(a) == IF a < 0 THEN 0 - a ELSE a
Sign(a) == IF a < 0 THEN 0 - 1 ELSE IF a > 0 THEN 1 ELSE 0

Vec(z) == <<0, 0, z>>
VecHigh(z) == <<0, 20, z>>
NaNVec(z) == <<NaN, 0, z>>

ISqrt(n) == CHOOSE r \in 0..1000 : r * r <= n /\ (r + 1) * (r + 1) > n

\* THREE.Vector3.distanceTo, in tenths
Dist(a, b) ==
    IF a[1] = NaN \/ b[1] = NaN THEN NaN
    ELSE IF a[2] = b[2] THEN 10 * Abs(a[3] - b[3])
    ELSE ISqrt(100 * ((a[2] - b[2]) * (a[2] - b[2]) + (a[3] - b[3]) * (a[3] - b[3])))

\* d > k and d < k on numbers that may be NaN (every comparison with NaN is false)
Gt(d, k) == d # NaN /\ d > k
Lt(d, k) == d # NaN /\ d < k

-----------------------------------------------------------------------------
(* Spatial selectors, src/main.js:861-956 *)

\* the loop of getSafeNode with score <= bestScore: the last of several equal spots wins
RECURSIVE BestCoverLoopLast(_, _, _, _, _, _, _)
BestCoverLoopLast(spots, dangerPos, npcPos, i, bestCover, bestScore, unset) ==
    IF i > Len(spots) THEN bestCover
    ELSE LET distToNpc == Dist(spots[i], npcPos)
             distFromDanger == Dist(spots[i], dangerPos)
             score == 2 * distToNpc - distFromDanger
         IN IF unset \/ score <= bestScore
            THEN BestCoverLoopLast(spots, dangerPos, npcPos, i + 1, spots[i], score, FALSE)
            ELSE BestCoverLoopLast(spots, dangerPos, npcPos, i + 1, bestCover, bestScore, unset)

\* the loop of src/main.js:870-880: the first spot with the strictly lowest score
\* (score = distToNpc - 0.5 * distFromDanger, doubled here)
RECURSIVE BestCoverLoop(_, _, _, _, _, _, _)
BestCoverLoop(spots, dangerPos, npcPos, i, bestCover, bestScore, unset) ==
    IF i > Len(spots) THEN bestCover
    ELSE LET distToNpc == Dist(spots[i], npcPos)
             distFromDanger == Dist(spots[i], dangerPos)
             score == 2 * distToNpc - distFromDanger
         IN IF unset \/ score < bestScore
            THEN BestCoverLoop(spots, dangerPos, npcPos, i + 1, spots[i], score, FALSE)
            ELSE BestCoverLoop(spots, dangerPos, npcPos, i + 1, bestCover, bestScore, unset)

\* the fallback loop with d >= maxDist: the last of several equally far nodes wins
RECURSIVE FurthestLoopLast(_, _, _, _, _, _)
FurthestLoopLast(nodes, dangerPos, i, furthest, maxDist, unset) ==
    IF i > Len(nodes) THEN furthest
    ELSE LET d == Dist(nodes[i], dangerPos)
         IN IF d # NaN /\ (unset \/ d >= maxDist)
            THEN FurthestLoopLast(nodes, dangerPos, i + 1, nodes[i], d, FALSE)
            ELSE FurthestLoopLast(nodes, dangerPos, i + 1, furthest, maxDist, unset)

\* the fallback loop without its initial furthest = navNodes[0]
FurthestLoopNone(nodes, dangerPos, i, furthest, maxDist, unset) ==
    LET further == SelectSeq(nodes, LAMBDA p : Gt(Dist(p, dangerPos), maxDist))
    IN IF Len(further) = 0 THEN Null ELSE further[1]

\* the loops of src/main.js:888-894 and 925-931: the first node strictly further
\* from the danger than maxDist; unset stands for maxDist = -Infinity
RECURSIVE FurthestLoop(_, _, _, _, _, _)
FurthestLoop(nodes, dangerPos, i, furthest, maxDist, unset) ==
    IF i > Len(nodes) THEN furthest
    ELSE LET d == Dist(nodes[i], dangerPos)
         IN IF d # NaN /\ (unset \/ d > maxDist)
            THEN FurthestLoop(nodes, dangerPos, i + 1, nodes[i], d, FALSE)
            ELSE FurthestLoop(nodes, dangerPos, i + 1, furthest, maxDist, unset)

\* the loops of src/main.js:899-905 and 949-955: the first node strictly closest to pos
RECURSIVE ClosestLoop(_, _, _, _, _, _)
ClosestLoop(nodes, pos, i, closest, minDist, unset) ==
    IF i > Len(nodes) THEN closest
    ELSE LET d == Dist(nodes[i], pos)
         IN IF d # NaN /\ (unset \/ d < minDist)
            THEN ClosestLoop(nodes, pos, i + 1, nodes[i], d, FALSE)
            ELSE ClosestLoop(nodes, pos, i + 1, closest, minDist, unset)

SafeCover(covers, dangerPos) == SelectSeq(covers, LAMBDA p : Gt(Dist(p, dangerPos), 80))
SafeNodes(nodes, dangerPos) == SelectSeq(nodes, LAMBDA p : Gt(Dist(p, dangerPos), 120))

\* getSafeNode with a non-null npcPos (its only caller passes pos), on a non-empty nodes
GetSafeNodeIn(nodes, covers, dangerPos, npcPos) ==
    LET safeCover == SafeCover(covers, dangerPos)
        safeNodes == SafeNodes(nodes, dangerPos)
    IN IF Len(safeCover) > 0
       THEN BestCoverLoop(safeCover, dangerPos, npcPos, 1, safeCover[1], 0, TRUE)
       ELSE IF Len(safeNodes) = 0
            THEN FurthestLoop(nodes, dangerPos, 1, nodes[1], 0, FALSE)
            ELSE ClosestLoop(safeNodes, npcPos, 1, safeNodes[1], 0, TRUE)

\* the loop of getFarSafeNode with score >= bestScore: the last of several equal
\* candidates wins
RECURSIVE BestFarLoopLast(_, _, _, _, _, _, _)
BestFarLoopLast(candidates, dangerPos, npcPos, i, best, bestScore, unset) ==
    IF i > Len(candidates) THEN best
    ELSE LET distFromDanger == Dist(candidates[i], dangerPos)
             distToNpc == Dist(candidates[i], npcPos)
             score == 20 * distFromDanger - 3 * distToNpc
         IN IF unset \/ score >= bestScore
            THEN BestFarLoopLast(candidates, dangerPos, npcPos, i + 1, candidates[i], score, FALSE)
            ELSE BestFarLoopLast(candidates, dangerPos, npcPos, i + 1, best, bestScore, unset)

\* the loop of src/main.js:934-944: the first candidate with the strictly highest
\* score (score = distFromDanger - 0.15 * distToNpc, times 20 here)
RECURSIVE BestFarLoop(_, _, _, _, _, _, _)
BestFarLoop(candidates, dangerPos, npcPos, i, best, bestScore, unset) ==
    IF i > Len(candidates) THEN best
    ELSE LET distFromDanger == Dist(candidates[i], dangerPos)
             distToNpc == Dist(candidates[i], npcPos)
             score == 20 * distFromDanger - 3 * distToNpc
         IN IF unset \/ score > bestScore
            THEN BestFarLoop(candidates, dangerPos, npcPos, i + 1, candidates[i], score, FALSE)
            ELSE BestFarLoop(candidates, dangerPos, npcPos, i + 1, best, bestScore, unset)

GetFarSafeNodeIn(nodes, covers, dangerPos, npcPos) ==
    LET candidates == SafeCover(covers, dangerPos) \o SafeNodes(nodes, dangerPos)
    IN IF Len(candidates) = 0
       THEN FurthestLoop(nodes, dangerPos, 1, nodes[1], 0, TRUE)
       ELSE BestFarLoop(candidates, dangerPos, npcPos, 1, candidates[1], 0, TRUE)

\* getSafeNode taking its threat from the danger memory when there is one
getSafeNodeRemembering(dangerPos, npcPos) ==
    GetSafeNodeIn(navNodes, coverSpots,
                  IF Len(npc.dangerMemory) > 0 THEN npc.dangerMemory[1].pos ELSE dangerPos,
                  npcPos)

getSafeNode(dangerPos, npcPos) == GetSafeNodeIn(navNodes, coverSpots, dangerPos, npcPos)
getFarSafeNode(dangerPos, npcPos) == GetFarSafeNodeIn(navNodes, coverSpots, dangerPos, npcPos)

-----------------------------------------------------------------------------
(* The behaviour state machine, src/main.js:995-1423.  A handler is a      *)
(* function from the npc record to the set of records its random draws can *)
(* produce.                                                                *)

StuckCap == 2         \* stuckTime saturates here: the code only asks stuckTime > 1 and > 0.4

\* the walkable nodes of the authored environment (src/main.js:339), on the street axis;
\* the body moves from one node to the next
Street == <<Vec(5), Vec(15), Vec(25)>>
Cell == Street[2][3] - Street[1][3]
WorldStart == Street[1][3]
WorldEnd == Street[Len(Street)][3]

\* lo + Math.random() * (hi - lo): its least and its greatest whole value
Rand(lo, hi) == {lo, hi - 1}

SeqToSet(q) == {q[i] : i \in 1..Len(q)}

\* src/main.js:1009-1016
TrackStuck(n, dt) ==
    IF Lt(Dist(n.pos, n.lastPos), 1)
    THEN [n EXCEPT !.stuckTime = Min(StuckCap, n.stuckTime + dt)]
    ELSE [n EXCEPT !.stuckTime = 0, !.lastPos = n.pos]

\* UpdatePanicTimer with every expiry leading to IDLE
UpdatePanicTimerToIdle(n, dt) ==
    IF n.status \in {"PANIC", "COWERING"}
    THEN LET m == [n EXCEPT !.panicTimer = n.panicTimer - dt]
         IN IF m.panicTimer <= 0
            THEN {[m EXCEPT !.status = "IDLE", !.fleeAfterHide = FALSE, !.targetNode = Null]}
            ELSE {m}
    ELSE {n}

\* src/main.js:1024-1040
UpdatePanicTimer(n, dt) ==
    IF n.status \in {"PANIC", "COWERING"}
    THEN LET m == [n EXCEPT !.panicTimer = n.panicTimer - dt]
         IN IF m.panicTimer <= 0
            THEN IF m.status = "COWERING"
                 THEN {[m EXCEPT !.status = "PANIC", !.fleeAfterHide = TRUE,
                                 !.panicTimer = t, !.targetNode = Null] : t \in Rand(5, 10)}
                 ELSE {[m EXCEPT !.status = "IDLE", !.fleeAfterHide = FALSE,
                                 !.targetNode = Null]}
            ELSE {m}
    ELSE {n}

\* src/main.js:1077-1087: the remembered danger strictly closest to pos, else lastDangerPos
RECURSIVE PrimaryDangerLoop(_, _, _, _, _, _)
PrimaryDangerLoop(mem, pos, i, primaryDanger, closestDist, unset) ==
    IF i > Len(mem) THEN primaryDanger
    ELSE LET dist == Dist(pos, mem[i].pos)
         IN IF dist # NaN /\ (unset \/ dist < closestDist)
            THEN PrimaryDangerLoop(mem, pos, i + 1, mem[i].pos, dist, FALSE)
            ELSE PrimaryDangerLoop(mem, pos, i + 1, primaryDanger, closestDist, unset)

PrimaryDanger(n) == PrimaryDangerLoop(n.dangerMemory, n.pos, 1, n.lastDangerPos, 0, TRUE)

\* src/main.js:1074-1097
PickPanicTarget(n) ==
    IF n.targetNode = Null
    THEN [n EXCEPT !.targetNode = IF n.fleeAfterHide
                                  THEN getFarSafeNode(PrimaryDanger(n), n.pos)
                                  ELSE getSafeNode(PrimaryDanger(n), n.pos)]
    ELSE n

\* src/main.js:1099-1103
Retarget(n) ==
    IF n.stuckTime > 1 /\ n.targetNode # Null
    THEN [n EXCEPT !.targetNode = getSafeNode(n.lastDangerPos, n.pos), !.stuckTime = 0]
    ELSE n

\* Arrive taking cover whether or not the agent is fleeing after a hide
ArriveAlwaysHides(n) ==
    IF Lt(Dist(n.pos, n.targetNode), 15)
    THEN {[n EXCEPT !.status = "COWERING", !.targetNode = Null,
                    !.panicTimer = t] : t \in Rand(6, 12)}
    ELSE {n}

\* Arrive without the distance test
ArriveAnywhere(n) ==
    IF n.fleeAfterHide
    THEN {[n EXCEPT !.status = "IDLE", !.fleeAfterHide = FALSE,
                    !.targetNode = Null, !.panicTimer = 0]}
    ELSE {[n EXCEPT !.status = "COWERING", !.targetNode = Null,
                    !.panicTimer = t] : t \in Rand(6, 12)}

\* src/main.js:1167-1181
Arrive(n) ==
    IF Lt(Dist(n.pos, n.targetNode), 15)
    THEN IF n.fleeAfterHide
         THEN {[n EXCEPT !.status = "IDLE", !.fleeAfterHide = FALSE,
                         !.targetNode = Null, !.panicTimer = 0]}
         ELSE {[n EXCEPT !.status = "COWERING", !.targetNode = Null,
                         !.panicTimer = t] : t \in Rand(6, 12)}
    ELSE {n}

\* src/main.js:1064-1186
handlePanicState(n, dt) ==
    LET a == [n EXCEPT !.alertLevel = AlertOne]
        b == Retarget(PickPanicTarget(a))
    IN IF b.targetNode # Null
       THEN Arrive([b EXCEPT !.vel = Sign(b.targetNode[3] - b.pos[3])])
       ELSE {b}

\* src/main.js:1188-1266
handleCoweringState(n, dt) ==
    {[n EXCEPT !.alertLevel = Max(14, n.alertLevel), !.vel = 0]}

\* LookingDecision without the dangerDist < 10 override
LookingDecisionAnywhere(n, dangerDist) ==
    {n}
    \cup {[n EXCEPT !.status = "PANIC", !.panicTimer = t, !.targetNode = Null] : t \in Rand(8, 12)}
    \cup {[n EXCEPT !.status = "IDLE"]}

\* src/main.js:1316-1327: the two rolls
LookingDecision(n, dangerDist) ==
    {n}
    \cup {[n EXCEPT !.status = "PANIC", !.panicTimer = t, !.targetNode = Null] : t \in Rand(8, 12)}
    \cup (IF Lt(dangerDist, 100) THEN {} ELSE {[n EXCEPT !.status = "IDLE"]})

\* handleLookingState without Math.min(1, ...)
handleLookingStateUnclamped(n, dt) ==
    LookingDecision([n EXCEPT !.alertLevel = n.alertLevel + dt * 4],
                    Dist(n.pos, n.lastDangerPos))

\* src/main.js:1268-1328
handleLookingState(n, dt) ==
    LET dangerDist == Dist(n.pos, n.lastDangerPos)
        a == [n EXCEPT !.alertLevel = Min(AlertOne, n.alertLevel + dt * 4),
                       !.vel = IF Lt(dangerDist, 100)
                               THEN Sign(n.pos[3] - n.lastDangerPos[3]) ELSE 0]
    IN LookingDecision(a, dangerDist)

\* Prune forgetting the fresh entries and keeping the old ones
PruneFresh(mem) == SelectSeq(mem, LAMBDA d : d.age >= PruneAge)

\* src/main.js:1339-1341
Prune(mem) == SelectSeq(mem, LAMBDA d : d.age < PruneAge)

\* src/main.js:1354-1372: the nodes the wander target is drawn from
WanderChoices(n) ==
    LET searchRadius == IF n.alertLevel > 6 THEN 80 ELSE 150
        nearbyNodes == SelectSeq(navNodes, LAMBDA p : Lt(Dist(p, n.pos), searchRadius))
        safeNodes == IF Len(n.dangerMemory) > 0
                     THEN SelectSeq(nearbyNodes, LAMBDA p :
                              \A i \in 1..Len(n.dangerMemory) :
                                  ~Lt(Dist(p, n.dangerMemory[i].pos), 100))
                     ELSE nearbyNodes
    IN IF Len(safeNodes) > 0 THEN SeqToSet(safeNodes)
       ELSE IF Len(nearbyNodes) > 0 THEN SeqToSet(nearbyNodes)
       ELSE SeqToSet(navNodes)

\* handleIdleState turning to look whenever it runs
handleIdleStateStartled(n, dt) ==
    LET a == [n EXCEPT !.alertLevel = Max(0, n.alertLevel - dt),
                       !.dangerMemory = Prune(n.dangerMemory),
                       !.status = "LOOKING"]
        picked == {[a EXCEPT !.targetNode = t] : t \in WanderChoices(a)}
        kept == IF a.targetNode = Null THEN {} ELSE {a}
    IN {[b EXCEPT !.vel = Sign(b.targetNode[3] - b.pos[3])] : b \in picked \cup kept}

\* src/main.js:1330-1423
handleIdleState(n, dt) ==
    LET a == [n EXCEPT !.alertLevel = Max(0, n.alertLevel - dt),
                       !.dangerMemory = Prune(n.dangerMemory)]
        picked == {[a EXCEPT !.targetNode = t] : t \in WanderChoices(a)}
        kept == IF a.targetNode = Null THEN {} ELSE {a}
    IN {[b EXCEPT !.vel = Sign(b.targetNode[3] - b.pos[3])] : b \in picked \cup kept}

\* src/main.js:1042-1058
Dispatch(n, dt) ==
    CASE n.status = "PANIC" -> handlePanicState(n, dt)
      [] n.status = "COWERING" -> handleCoweringState(n, dt)
      [] n.status = "LOOKING" -> handleLookingState(n, dt)
      [] OTHER -> handleIdleState(n, dt)

\* the npc records after the panic-timer check of one updateNPC(dt)
AfterTimer(n, dt) == UpdatePanicTimer(TrackStuck(n, dt), dt)

\* the early return taken only while the agent is not looking around
NoNavNodesUnlessLooking(n) == Len(navNodes) = 0 /\ n.status # "LOOKING"

\* src/main.js:996, if (!navNodes.length) return
NoNavNodes(n) == Len(navNodes) = 0

\* src/main.js:995-1062
updateNPC(n, dt) ==
    IF NoNavNodes(n) THEN {n}
    ELSE UNION {Dispatch(m, dt) : m \in AfterTimer(n, dt)}

-----------------------------------------------------------------------------
(* The mutable world outside the npc object, bundled so that a callback is  *)
(* a function from world to world.  threw is set when the callback ended in *)
(* an uncaught exception: the rest of the callback did not run.            *)

World == [npc |-> npc, timers |-> timers, physicsBodies |-> physicsBodies,
          physicsMeshes |-> physicsMeshes, worldBodies |-> worldBodies,
          sceneMeshes |-> sceneMeshes, nextId |-> nextId, threw |-> FALSE]

NullEntry == 0            \* null in physicsBodies / physicsMeshes
HoleEntry == 0 - 1        \* an index of a JavaScript array that was never assigned

\* setTimeout(callback, delay): timers fire in the order of their due time, and in the
\* order of their registration when due together
RECURSIVE InsertTimer(_, _)
InsertTimer(q, t) ==
    IF Len(q) = 0 THEN <<t>>
    ELSE IF Head(q).rem <= t.rem THEN <<Head(q)>> \o InsertTimer(Tail(q), t)
    ELSE <<t>> \o q

SetTimeout(w, kind, delay, arg) ==
    [w EXCEPT !.timers = InsertTimer(w.timers, [kind |-> kind, rem |-> delay, arg |-> arg])]

\* array[index] = value on a JavaScript array (index counted from 1 here): an index
\* beyond the length extends the array, leaving holes in between
RECURSIVE Holes(_)
Holes(k) == IF k <= 0 THEN << >> ELSE <<HoleEntry>> \o Holes(k - 1)

ArraySet(a, index, value) ==
    IF index <= Len(a) THEN [a EXCEPT ![index] = value]
    ELSE a \o Holes(index - Len(a) - 1) \o <<value>>

\* src/main.js:1908-1943.  The identifier loadedModels is declared nowhere in main.js:
\* line 1912 throws a ReferenceError unless the host page defines it as a global.
registerPhysicsObjectWithModel(w, lifetime) ==
    LET body == w.nextId
        a == [w EXCEPT !.worldBodies = w.worldBodies \cup {body}, !.nextId = w.nextId + 1]
    IN IF w.threw THEN w
       ELSE IF ~loadedModelsDeclared THEN [a EXCEPT !.threw = TRUE]
       ELSE LET index == Len(a.physicsBodies) + 1
                b == [a EXCEPT !.sceneMeshes = a.sceneMeshes \cup {body},
                               !.physicsBodies = Append(a.physicsBodies, body),
                               !.physicsMeshes = Append(a.physicsMeshes, body)]
            IN SetTimeout(b, "expire", lifetime, <<index, body>>)

\* src/main.js:1937-1942, the cleanup callback of the entity registered at index
ExpireCallback(w, index, body) ==
    [w EXCEPT !.worldBodies = w.worldBodies \ {body},
              !.sceneMeshes = w.sceneMeshes \ {body},
              !.physicsBodies = ArraySet(w.physicsBodies, index, NullEntry),
              !.physicsMeshes = ArraySet(w.physicsMeshes, index, NullEntry)]

\* src/main.js:1974-1977; Array.prototype.filter skips holes
Compact(a) == SelectSeq(a, LAMBDA e : e # NullEntry /\ e # HoleEntry)

\* a compaction that filters only physicsBodies
CompactBodiesOnly(w) ==
    SetTimeout([w EXCEPT !.physicsBodies = Compact(w.physicsBodies)],
               "compact", CompactEvery, << >>)

CompactionCallback(w) ==
    SetTimeout([w EXCEPT !.physicsBodies = Compact(w.physicsBodies),
                         !.physicsMeshes = Compact(w.physicsMeshes)],
               "compact", CompactEvery, << >>)

\* src/main.js:2000-2006: the pairs the per-frame sync loop copies
SyncedPairs(bodies, meshes) ==
    {i \in 1..Len(bodies) :
        /\ bodies[i] # NullEntry /\ bodies[i] # HoleEntry
        /\ i <= Len(meshes) /\ meshes[i] # NullEntry /\ meshes[i] # HoleEntry}

RECURSIVE RegisterMany(_, _, _)
RegisterMany(w, count, lifetime) ==
    IF count = 0 THEN w
    ELSE RegisterMany(registerPhysicsObjectWithModel(w, lifetime), count - 1, lifetime)

-----------------------------------------------------------------------------
(* Chaos event handlers, src/main.js:1474-1903.  Lights, sounds and the     *)
(* runner mesh are effects outside the modelled state.                     *)

\* Remember without the shift()
RememberAll(n, pos, type) ==
    [n EXCEPT !.dangerMemory = Append(n.dangerMemory, [pos |-> pos, age |-> 0, type |-> type])]

\* Remember evicting the newest entry instead of the oldest
RememberOldest(n, pos, type) ==
    LET pushed == Append(n.dangerMemory, [pos |-> pos, age |-> 0, type |-> type])
    IN [n EXCEPT !.dangerMemory = IF Len(pushed) > MemoryCap THEN SubSeq(pushed, 1, MemoryCap)
                                  ELSE pushed]

\* npc.dangerMemory.push(...); if (length > 5) shift()
Remember(n, pos, type) ==
    LET pushed == Append(n.dangerMemory, [pos |-> pos, age |-> 0, type |-> type])
    IN [n EXCEPT !.dangerMemory = IF Len(pushed) > MemoryCap THEN Tail(pushed) ELSE pushed]

NpcZ(w) == w.npc.pos[3]

\* src/main.js:1474-1521; z is carBody.position.z (startZ)
spawnFlyingCar(w, z) ==
    LET a == registerPhysicsObjectWithModel(w, 8)
    IN IF a.threw THEN a
       ELSE [a EXCEPT !.npc = [a.npc EXCEPT !.lastDangerPos = Vec(z), !.status = "PANIC",
                                            !.panicTimer = 10, !.targetNode = Null]]

\* src/main.js:1523-1590; pos.x is NaN
spawnExplosion(w, z) ==
    LET a == RegisterMany(w, 8, 6)
    IN IF a.threw THEN a
       ELSE [a EXCEPT !.npc = [a.npc EXCEPT !.lastDangerPos = NaNVec(z), !.status = "PANIC",
                                            !.panicTimer = 12, !.targetNode = Null]]

\* src/main.js:1595-1622: the spawn callbacks are due after i * 300 ms
RECURSIVE DebrisTimers(_, _, _)
DebrisTimers(w, i, count) ==
    IF i >= count THEN w
    ELSE DebrisTimers(SetTimeout(w, "debrisSpawn", (i * 3) \div 10, << >>), i + 1, count)

\* src/main.js:1592-1635
spawnFallingDebris(w, count) ==
    LET a == DebrisTimers(w, 0, count)
        b == [a EXCEPT !.npc = [a.npc EXCEPT !.lastDangerPos = VecHigh(NpcZ(a)),
                                             !.status = "LOOKING"]]
    IN SetTimeout(b, "debrisPanic", 1, << >>)

\* src/main.js:1596-1621
DebrisSpawnCallback(w) == registerPhysicsObjectWithModel(w, 8)

\* src/main.js:1628-1634
DebrisPanicCallback(w) ==
    IF w.npc.status = "LOOKING"
    THEN [w EXCEPT !.npc = [w.npc EXCEPT !.status = "PANIC", !.panicTimer = 8,
                                         !.targetNode = Null]]
    ELSE w

\* src/main.js:1637-1680; the light exists (src/main.js:818-822).  The sweep interval
\* runs for as long as its clearing timeout is pending.
activateHelicopterSearch(w) ==
    LET a == SetTimeout(w, "heliOff", SweepFor, << >>)
    IN [a EXCEPT !.npc = [a.npc EXCEPT !.status = "LOOKING", !.lastDangerPos = Vec(0)]]

\* SweepCallback without the status test
SweepCallbackAnyStatus(w, lightPos) ==
    IF Lt(Dist(Vec(NpcZ(w)), lightPos), 50)
    THEN [w EXCEPT !.npc = [w.npc EXCEPT !.status = "COWERING", !.panicTimer = 3,
                                         !.lastDangerPos = lightPos]]
    ELSE w

\* src/main.js:1649-1669, one run of the interval callback with the light target at lightPos
SweepCallback(w, lightPos) ==
    IF Lt(Dist(Vec(NpcZ(w)), lightPos), 50) /\ w.npc.status = "IDLE"
    THEN [w EXCEPT !.npc = [w.npc EXCEPT !.status = "COWERING", !.panicTimer = 3,
                                         !.lastDangerPos = lightPos]]
    ELSE w

\* spawnGunshots reacting as spawnScreaming does
spawnGunshotsLooking(w, offset, t) ==
    LET shotPos == Vec(NpcZ(w) + offset)
        a == [w.npc EXCEPT !.lastDangerPos = shotPos,
                           !.alertLevel = Min(AlertOne, w.npc.alertLevel + 8)]
        b == IF a.status = "IDLE" THEN [a EXCEPT !.status = "LOOKING", !.panicTimer = 3]
             ELSE a
    IN [w EXCEPT !.npc = [b EXCEPT !.dangerMemory =
                             Append(b.dangerMemory, [pos |-> shotPos, age |-> 0,
                                                     type |-> "gunshots"])]]

\* spawnGunshots breaking off the hiding: COWERING is treated like IDLE
spawnGunshotsInterrupt(w, offset, t) ==
    LET shotPos == Vec(NpcZ(w) + offset)
        a == [w.npc EXCEPT !.lastDangerPos = shotPos,
                           !.alertLevel = Min(AlertOne, w.npc.alertLevel + 8)]
        b == IF a.status \in {"IDLE", "CAUTIOUS", "COWERING"}
             THEN [a EXCEPT !.status = "PANIC", !.panicTimer = t, !.targetNode = Null]
             ELSE a
    IN [w EXCEPT !.npc = Remember(b, shotPos, "gunshots")]

\* src/main.js:1682-1739
spawnGunshots(w, offset, t) ==
    LET shotPos == Vec(NpcZ(w) + offset)
        a == [w.npc EXCEPT !.lastDangerPos = shotPos,
                           !.alertLevel = Min(AlertOne, w.npc.alertLevel + 8)]
        b == IF a.status = "IDLE" \/ a.status = "CAUTIOUS"
             THEN [a EXCEPT !.status = "PANIC", !.panicTimer = t, !.targetNode = Null]
             ELSE IF a.status = "COWERING"
                  THEN [a EXCEPT !.panicTimer = a.panicTimer + 4]
                  ELSE a
    IN [w EXCEPT !.npc = Remember(b, shotPos, "gunshots")]

\* spawnScreaming without the push onto dangerMemory
spawnScreamingSilent(w, offset) ==
    LET screamPos == Vec(NpcZ(w) + offset)
        a == [w.npc EXCEPT !.lastDangerPos = screamPos,
                           !.alertLevel = Min(AlertOne, w.npc.alertLevel + 5)]
        looking == a.status = "IDLE"
        b == IF looking THEN [a EXCEPT !.status = "LOOKING", !.panicTimer = 3] ELSE a
        c == [w EXCEPT !.npc = b]
    IN IF looking THEN SetTimeout(c, "screamPanic", 2, << >>) ELSE c

\* src/main.js:1741-1773
spawnScreaming(w, offset) ==
    LET screamPos == Vec(NpcZ(w) + offset)
        a == [w.npc EXCEPT !.lastDangerPos = screamPos,
                           !.alertLevel = Min(AlertOne, w.npc.alertLevel + 5)]
        looking == a.status = "IDLE"
        b == IF looking THEN [a EXCEPT !.status = "LOOKING", !.panicTimer = 3] ELSE a
        c == [w EXCEPT !.npc = Remember(b, screamPos, "scream")]
    IN IF looking THEN SetTimeout(c, "screamPanic", 2, << >>) ELSE c

\* src/main.js:1762-1768; go is Math.random() > 0.4
ScreamPanicCallback(w, go, t) ==
    IF w.npc.status = "LOOKING" /\ go
    THEN [w EXCEPT !.npc = [w.npc EXCEPT !.status = "PANIC", !.panicTimer = t,
                                         !.targetNode = Null]]
    ELSE w

\* spawnCarCrash starting the panic afresh: fleeAfterHide is cleared
spawnCarCrashFresh(w, z, t) ==
    LET a == RegisterMany(w, 6, 10)
        crashPos == Vec(z)
        b == [a.npc EXCEPT !.lastDangerPos = crashPos,
                           !.alertLevel = Min(AlertOne, a.npc.alertLevel + 10),
                           !.status = "PANIC", !.panicTimer = t, !.targetNode = Null,
                           !.fleeAfterHide = FALSE]
    IN IF a.threw THEN a
       ELSE [a EXCEPT !.npc = Remember(b, crashPos, "crash")]

\* src/main.js:1775-1843
spawnCarCrash(w, z, t) ==
    LET a == RegisterMany(w, 6, 10)
        crashPos == Vec(z)
        b == [a.npc EXCEPT !.lastDangerPos = crashPos,
                           !.alertLevel = Min(AlertOne, a.npc.alertLevel + 10),
                           !.status = "PANIC", !.panicTimer = t, !.targetNode = Null]
    IN IF a.threw THEN a
       ELSE [a EXCEPT !.npc = Remember(b, crashPos, "crash")]

\* src/main.js:1845-1903; line 1852 reads loadedModels before anything else is changed
spawnRunningPerson(w, offset) ==
    IF ~loadedModelsDeclared THEN [w EXCEPT !.threw = TRUE]
    ELSE LET a == [w.npc EXCEPT !.lastDangerPos = Vec(NpcZ(w) + offset),
                                !.alertLevel = Min(AlertOne, w.npc.alertLevel + 3)]
         IN IF a.status = "IDLE"
            THEN SetTimeout([w EXCEPT !.npc = [a EXCEPT !.status = "LOOKING", !.panicTimer = 2]],
                            "runnerPanic", 1, << >>)
            ELSE [w EXCEPT !.npc = a]

\* src/main.js:1895-1901; go is Math.random() > 0.6
RunnerPanicCallback(w, go) ==
    IF w.npc.status = "LOOKING" /\ go
    THEN [w EXCEPT !.npc = [w.npc EXCEPT !.status = "PANIC", !.panicTimer = 5,
                                         !.targetNode = Null]]
    ELSE w

-----------------------------------------------------------------------------
(* The chaos director, src/main.js:1426-1472 *)

\* the values the handlers' random draws are taken from
CarZ == {40}
ExplosionZ == {0}
DebrisCounts == {3}
GunOffsets == {0 - 15, 15}
ScreamOffsets == {0 - 8, 15}
CrashZ == {0, 20}
RunnerOffsets == {0 - 10, 10}
LightPoints == {Vec(15), Vec(0 - 15)}

Categories == {"flyingCar", "explosion", "debris", "helicopter", "gunshots", "scream",
               "crash", "runner"}

\* the handler triggerChaos runs for a roll in the category's interval, src/main.js:1449-1465
HandlerResults(w, cat) ==
    CASE cat = "flyingCar" -> {spawnFlyingCar(w, z) : z \in CarZ}
      [] cat = "explosion" -> {spawnExplosion(w, z) : z \in ExplosionZ}
      [] cat = "debris" -> {spawnFallingDebris(w, c) : c \in DebrisCounts}
      [] cat = "helicopter" -> {activateHelicopterSearch(w)}
      [] cat = "gunshots" -> {spawnGunshots(w, o, t) : o \in GunOffsets, t \in Rand(8, 14)}
      [] cat = "scream" -> {spawnScreaming(w, o) : o \in ScreamOffsets}
      [] cat = "crash" -> {spawnCarCrash(w, z, t) : z \in CrashZ, t \in Rand(10, 15)}
      [] OTHER -> {spawnRunningPerson(w, o) : o \in RunnerOffsets}

\* TrackDanger without the timeout that takes the count down again
TrackDangerForEver(w) ==
    IF w.threw THEN w
    ELSE [w EXCEPT !.npc = [w.npc EXCEPT !.recentDangerCount = w.npc.recentDangerCount + 1]]

\* src/main.js:1467-1469
TrackDanger(w) ==
    IF w.threw THEN w
    ELSE SetTimeout([w EXCEPT !.npc = [w.npc EXCEPT !.recentDangerCount =
                                                        w.npc.recentDangerCount + 1]],
                    "decay", DecayAfter, << >>)

\* src/main.js:1446-1472
triggerChaos(w, cat) == {TrackDanger(h) : h \in HandlerResults(w, cat)}

\* src/main.js:1469, the decay callback
DecayCallback(w) ==
    [w EXCEPT !.npc = [w.npc EXCEPT !.recentDangerCount = Max(0, w.npc.recentDangerCount - 1)]]

\* src/main.js:1427-1430: (random * (max - min) + min) * (1 - alertLevel * 0.3)
ChaosDelays(alertLevel) == {(base * (200 - 3 * alertLevel)) \div 200 : base \in Rand(8, 18)}

\* src/main.js:1426-1444: the pending main timer
scheduleNextEvent(w) == {SetTimeout(w, "main", d, << >>) : d \in ChaosDelays(w.npc.alertLevel)}

\* Chain arming the third event when the second fires, d3 after it
ChainAfterSecond(w) ==
    {w}
    \cup {SetTimeout(w, "chain", d2, <<2>>) : d2 \in {1, 2}}
    \cup {SetTimeout(SetTimeout(w, "chain", d2, <<2>>), "chain", d2 + d3, <<3>>) :
              d2 \in {1, 2}, d3 \in Rand(2, 4)}

\* src/main.js:1436-1442: no chain, a second event, or a second and a third; the
\* argument of a chain timer says which of the two it is
Chain(w) ==
    {w}
    \cup {SetTimeout(w, "chain", d2, <<2>>) : d2 \in {1, 2}}
    \cup {SetTimeout(SetTimeout(w, "chain", d2, <<2>>), "chain", d3, <<3>>) :
              d2 \in {1, 2}, d3 \in Rand(2, 4)}

\* src/main.js:1432-1443, the callback of the main timer
MainCallback(w, cat) ==
    UNION {IF r.threw THEN {r}
           ELSE UNION {Chain(s) : s \in scheduleNextEvent(r)} : r \in triggerChaos(w, cat)}

-----------------------------------------------------------------------------
(* Initial state: init() has completed (src/main.js:400-470), the compaction *)
(* interval of src/main.js:1974 is running, no frame has been drawn yet.    *)

SpawnPoint == Street[1]

\* the procedural build leaves navNodes empty (CONFIG.streetLength is undefined at
\* src/main.js:829); an authored environment supplies walkable nodes and cover spots
Environments == {[nav |-> << >>, cover |-> << >>],
                 [nav |-> Street, cover |-> <<Vec(15)>>]}

\* src/main.js:367-389, and the body created at the spawn point (src/main.js:482-491)
InitialNpc == [status |-> "IDLE", targetNode |-> Null, panicTimer |-> 0,
               lastDangerPos |-> Vec(0), stuckTime |-> 0, lastPos |-> Vec(0),
               fleeAfterHide |-> FALSE, dangerMemory |-> << >>, alertLevel |-> 0,
               recentDangerCount |-> 0, pos |-> SpawnPoint, vel |-> 0,
               yaw |-> 0, pitch |-> 0, shake |-> 0]

NoMid == [status |-> "", fleeAfterHide |-> FALSE, targetNode |-> Null, panicTimer |-> 0]
\* roll: the value of Math.random() in triggerChaos, in hundredths, where it is drawn
NoRoll == 0 - 1
\* look: the yaw and pitch a look step would have produced with npc.shake = 0
NoLook == [yaw |-> 0, pitch |-> 0]
Quiet == [op |-> "init", cat |-> "", pre |-> "", preLen |-> 0, threw |-> FALSE,
          expired |-> FALSE, near |-> FALSE, mid |-> NoMid, look |-> NoLook,
          roll |-> NoRoll]

Unlimited == 0 - 1
Never == 0 - 1

\* everything but the pending timers and the bounds of the behaviour
Constructed ==
    /\ npc = InitialNpc
    /\ \E e \in Environments : navNodes = e.nav /\ coverSpots = e.cover
    /\ loadedModelsDeclared \in BOOLEAN
    /\ physicsBodies = << >>
    /\ physicsMeshes = << >>
    /\ worldBodies = {}
    /\ sceneMeshes = {}
    /\ nextId = 1
    /\ delta = 0
    /\ elapsed = [main |-> Never, second |-> Never]
    /\ last = Quiet

\* The agent and the chaos events.  The director's timers are left out: a chaos
\* event may arrive at any moment (ChaosEvent below).  A behaviour either runs for
\* an unlimited time with MaxChaos events, or for QuickSeconds with QuickChaos events
\* in quick succession.
Init ==
    /\ Constructed
    /\ timers = << >>
    /\ budget \in {[events |-> MaxChaos, seconds |-> Unlimited],
                  [events |-> QuickChaos, seconds |-> QuickSeconds]}

-----------------------------------------------------------------------------
(* Actions *)

\* the world a callback leaves behind; an exception ends the callback, not the program
\* the deferred escalations of src/main.js:1627-1633, 1760-1768 and 1893-1901
Escalations == {"debrisPanic", "screamPanic", "runnerPanic"}

\* history of the status those closures read when they fire: a pending escalation whose
\* agent leaves LOOKING is marked, and stays marked whatever the agent does afterwards;
\* no handler reads the mark
Watch(q, before, after) ==
    IF before = "LOOKING" /\ after # "LOOKING"
    THEN [i \in 1..Len(q) |-> IF q[i].kind \in Escalations
                               THEN [q[i] EXCEPT !.arg = <<"left">>] ELSE q[i]]
    ELSE q

Apply(w) ==
    /\ npc' = w.npc
    /\ timers' = Watch(w.timers, npc.status, w.npc.status)
    /\ physicsBodies' = w.physicsBodies
    /\ physicsMeshes' = w.physicsMeshes
    /\ worldBodies' = w.worldBodies
    /\ sceneMeshes' = w.sceneMeshes
    /\ nextId' = w.nextId

Env == <<navNodes, coverSpots, loadedModelsDeclared>>

Due(kind) == Len(timers) > 0 /\ Head(timers).rem = 0 /\ Head(timers).kind = kind
Popped == [World EXCEPT !.timers = Tail(timers)]
Bounded(w) == w.nextId <= MaxEntities + 1 /\ w.npc.panicTimer <= MaxPanicTimer

Callback(op, w) ==
    /\ Bounded(w)
    /\ Apply(w)
    /\ last' = [Quiet EXCEPT !.op = op, !.pre = npc.status, !.threw = w.threw,
                             !.preLen = Len(npc.dangerMemory)]
    /\ UNCHANGED <<Env, delta, budget, elapsed>>

Event(op, cat, w) ==
    /\ budget.events > 0
    /\ Bounded(w)
    /\ Apply(w)
    /\ budget' = [budget EXCEPT !.events = budget.events - 1]
    /\ elapsed' = IF op = "main" THEN [main |-> 0, second |-> Never]
                  ELSE IF op = "chain2" THEN [elapsed EXCEPT !.second = 0]
                  ELSE elapsed
    /\ last' = [Quiet EXCEPT !.op = op, !.cat = cat, !.pre = npc.status, !.threw = w.threw,
                             !.preLen = Len(npc.dangerMemory)]
    /\ UNCHANGED <<Env, delta>>

\* the world's physics step (src/main.js:1998): the body follows its velocity by one
\* cell, or is held back by a collider
Step(n, dt) ==
    LET z == n.pos[3] + n.vel * Cell
    IN IF dt > 0 /\ n.vel # 0 /\ z >= WorldStart /\ z <= WorldEnd THEN {n, [n EXCEPT !.pos = Vec(z)]}
       ELSE {n}

\* src/main.js:1074-1103 as far as the target the arrival check reads
Approach(n) == Retarget(PickPanicTarget(n))
Near(n) == n.status = "PANIC" /\ Approach(n).targetNode # Null
           /\ Lt(Dist(n.pos, Approach(n).targetNode), 15)

\* src/main.js:1993-2014, one frame
animate ==
    LET dt == Min(delta, DtMax)
    IN delta > 0 /\ \E moved \in Step(npc, dt) :
         \E m \in (IF NoNavNodes(moved) THEN {moved} ELSE AfterTimer(moved, dt)) :
           \E n \in (IF NoNavNodes(moved) THEN {moved} ELSE Dispatch(m, dt)) :
              /\ npc' = n
              /\ delta' = 0
              /\ last' = [Quiet EXCEPT !.op = "animate", !.pre = npc.status,
                              !.preLen = Len(npc.dangerMemory),
                              !.expired = (~NoNavNodes(moved)
                                           /\ npc.status \in {"PANIC", "COWERING"}
                                           /\ npc.panicTimer - dt <= 0),
                              !.near = (~NoNavNodes(moved) /\ Near(m)),
                              !.mid = [status |-> m.status, fleeAfterHide |-> m.fleeAfterHide,
                                       targetNode |-> m.targetNode, panicTimer |-> m.panicTimer]]
              /\ timers' = Watch(timers, npc.status, n.status)
              /\ UNCHANGED <<Env, physicsBodies, physicsMeshes, worldBodies,
                             sceneMeshes, nextId, budget, elapsed>>

Later(e) == IF e = Never THEN Never ELSE Min(ChainWatch, e + 1)

\* one second passes with no timer due
Older(mem) == [i \in 1..Len(mem) |-> [mem[i] EXCEPT !.age = Min(PruneAge + 1, mem[i].age + 1)]]

Advance ==
    /\ delta < MaxDelta
    /\ budget.seconds # 0
    /\ budget' = [budget EXCEPT !.seconds = IF budget.seconds = Unlimited THEN Unlimited
                                            ELSE budget.seconds - 1]
    /\ \A i \in 1..Len(timers) : timers[i].rem > 0
    /\ timers' = [i \in 1..Len(timers) |-> [timers[i] EXCEPT !.rem = timers[i].rem - 1]]
    /\ npc' = [npc EXCEPT !.dangerMemory = Older(npc.dangerMemory)]
    /\ delta' = delta + 1
    /\ elapsed' = [main |-> Later(elapsed.main), second |-> Later(elapsed.second)]
    /\ last' = [Quiet EXCEPT !.op = "advance", !.pre = npc.status,
                             !.preLen = Len(npc.dangerMemory)]
    /\ UNCHANGED <<Env, physicsBodies, physicsMeshes, worldBodies, sceneMeshes, nextId>>

\* a timer callback () => triggerChaos() (src/main.js:1438, 1440) coming due
ChaosEvent == \E cat \in Categories : \E w \in triggerChaos(World, cat) : Event("chaos", cat, w)

\* the categories the director's own timers roll in SpecDirector: one whose handler
\* registers an entity, one that arms an interval, one that records a danger
DirectedCategories == {"flyingCar", "helicopter", "gunshots"}

MainTimer == Due("main") /\ \E cat \in DirectedCategories : \E w \in MainCallback(Popped, cat) :
                 Event("main", cat, w)
ChainTimer == Due("chain") /\ \E cat \in DirectedCategories : \E w \in triggerChaos(Popped, cat) :
                 Event(IF Head(timers).arg = <<2>> THEN "chain2" ELSE "chain3", cat, w)
DecayTimer == Due("decay") /\ Callback("decay", DecayCallback(Popped))
DebrisSpawnTimer == Due("debrisSpawn") /\ Callback("debrisSpawn", DebrisSpawnCallback(Popped))
DebrisPanicTimer == Due("debrisPanic") /\ Callback("debrisPanic", DebrisPanicCallback(Popped))
ScreamPanicTimer == Due("screamPanic") /\ \E go \in BOOLEAN, t \in Rand(6, 10) :
                        Callback("screamPanic", ScreamPanicCallback(Popped, go, t))
RunnerPanicTimer == Due("runnerPanic") /\ \E go \in BOOLEAN :
                        Callback("runnerPanic", RunnerPanicCallback(Popped, go))
\* src/main.js:1672-1676: clearInterval(sweep)
HeliOffTimer == Due("heliOff") /\ Callback("heliOff", Popped)
ExpireTimer == Due("expire") /\ Callback("expire", ExpireCallback(Popped, Head(timers).arg[1],
                                                                  Head(timers).arg[2]))
CompactionTimer == Due("compact") /\ Callback("compact", CompactionCallback(Popped))

\* a sweep interval that clearInterval never stops
SweepNeverCleared == TRUE

\* one run of a sweep interval callback; an interval is live while its heliOff is pending
SweepActive == \E i \in 1..Len(timers) : timers[i].kind = "heliOff"
SweepTick == SweepActive /\ \E lightPos \in LightPoints :
                 Callback("sweep", SweepCallback(World, lightPos))

Next ==
    \/ animate
    \/ Advance
    \/ ChaosEvent
    \/ DecayTimer
    \/ DebrisSpawnTimer
    \/ DebrisPanicTimer
    \/ ScreamPanicTimer
    \/ RunnerPanicTimer
    \/ HeliOffTimer
    \/ ExpireTimer
    \/ SweepTick

Spec == Init /\ [][Next]_vars

-----------------------------------------------------------------------------
(* The danger memory under a burst of recording events: the handlers that   *)
(* push onto npc.dangerMemory are called directly, many times in a short    *)
(* time, on the authored street.                                            *)

InitMemory ==
    /\ Constructed
    /\ Len(navNodes) > 0
    /\ loadedModelsDeclared
    /\ timers = << >>
    /\ budget = [events |-> MaxBurst, seconds |-> BurstSeconds]

\* every event of a burst is heard from the same side
BurstOffsets == {15}
BurstCrashZ == {20}

Gunshots == \E o \in BurstOffsets, t \in Rand(8, 14) :
                Event("handler", "gunshots", spawnGunshots(World, o, t))
Screaming == \E o \in BurstOffsets : Event("handler", "scream", spawnScreaming(World, o))
CarCrash == \E z \in BurstCrashZ, t \in {10} :
                Event("handler", "crash", spawnCarCrash(World, z, t))

NextMemory ==
    \/ animate
    \/ Advance
    \/ Gunshots
    \/ Screaming
    \/ CarCrash
    \/ ScreamPanicTimer

SpecMemory == InitMemory /\ [][NextMemory]_vars

-----------------------------------------------------------------------------
(* The transient-entity registry alone: registrations at any moment, their  *)
(* expiry timers and the compaction interval, in the procedural build       *)
(* (navNodes empty, so the frames leave the agent alone).                   *)

Lifetimes == {6, 8, 10}   \* src/main.js:1565, 1511 and 1617, 1815

InitRegistry ==
    /\ Constructed
    /\ Len(navNodes) = 0
    /\ timers = <<[kind |-> "compact", rem |-> CompactEvery, arg |-> << >>]>>
    /\ budget = [events |-> MaxSpawns, seconds |-> Unlimited]

SpawnEntity == \E lifetime \in Lifetimes :
                   Event("spawn", "", registerPhysicsObjectWithModel(World, lifetime))

NextRegistry ==
    \/ animate
    \/ Advance
    \/ SpawnEntity
    \/ ExpireTimer
    \/ CompactionTimer

SpecRegistry == InitRegistry /\ [][NextRegistry]_vars

-----------------------------------------------------------------------------
(* The chaos director with its own timers, in the procedural build          *)
(* (navNodes empty, so the frames leave the agent alone).                   *)

InitDirector ==
    /\ Constructed
    /\ Len(navNodes) = 0
    /\ \E d \in ChaosDelays(0) : timers = <<[kind |-> "main", rem |-> d, arg |-> << >>]>>
    /\ budget = [events |-> MaxDirected, seconds |-> Unlimited]

NextDirector ==
    \/ animate
    \/ Advance
    \/ MainTimer
    \/ ChainTimer
    \/ DecayTimer
    \/ HeliOffTimer
    \/ ExpireTimer
    \/ SweepTick

SpecDirector == InitDirector /\ [][NextDirector]_vars

-----------------------------------------------------------------------------
(* Properties.  last describes the step that led to the current state:      *)
(* last.op the operation, last.cat the chaos category, last.pre the status  *)
(* before the step, last.preLen the length of dangerMemory before it; for a *)
(* frame, last.expired says the panic timer ran out in it, last.mid is the  *)
(* npc right after the timer check and last.near says the arrival check of  *)
(* handlePanicState found the agent within 1.5 units of its target.         *)

Tick == last.op = "animate" /\ Len(navNodes) > 0
Entered(status) == npc.status = status /\ last.pre # status /\ last.op # "init"

\* C1 (as amended): no tick and no timer callback other than the aerial-search sweep
\* takes the agent from IDLE to COWERING; the sweep callback does, and only when its
\* light point is within 5 units of the agent.  COWERING is entered only from PANIC,
\* by a tick that finds the agent arrived, or from IDLE, by the sweep; never from LOOKING.
C1_CoweringEntry ==
    Entered("COWERING") =>
        \/ last.pre = "PANIC" /\ Tick /\ last.near
        \/ last.pre = "IDLE" /\ last.op = "sweep" /\ Lt(Dist(npc.pos, npc.lastDangerPos), 50)

\* C1 as the specification states it: no step taken with status IDLE ends in COWERING,
\* and COWERING is only entered from PANIC or LOOKING.
C1_Original ==
    /\ last.pre = "IDLE" => npc.status # "COWERING"
    /\ Entered("COWERING") => last.pre \in {"PANIC", "LOOKING"}

C1_Witness == last.op = "sweep" /\ last.pre = "IDLE" /\ npc.status = "COWERING"

\* the five edges the specification enumerates for a tick
EnumeratedEdge ==
    \/ last.pre = "LOOKING" /\ npc.status \in {"PANIC", "IDLE"}
    \/ last.pre = "COWERING" /\ npc.status = "PANIC" /\ last.expired
    \/ last.pre = "PANIC" /\ npc.status = "COWERING" /\ last.near /\ ~last.mid.fleeAfterHide
    \/ last.pre = "PANIC" /\ npc.status = "IDLE" /\ last.near /\ last.mid.fleeAfterHide

C3_CoweringExpiry ==
    (Tick /\ last.pre = "COWERING" /\ last.expired) =>
        /\ last.mid.status = "PANIC"
        /\ last.mid.fleeAfterHide
        /\ last.mid.targetNode = Null

C3_Witness == Tick /\ last.pre = "COWERING" /\ last.expired /\ last.mid.status = "PANIC"
              /\ npc.status = "PANIC"

GunfireInIdle == last.cat = "gunshots" /\ last.pre = "IDLE"

\* C4: right after a gunfire event that fired in IDLE the status is PANIC, the
\* panicTimer lies in [8, 14] and targetNode is null.
C4_GunfireFromIdle ==
    GunfireInIdle =>
        /\ npc.status = "PANIC"
        /\ npc.panicTimer >= 8 /\ npc.panicTimer <= 14
        /\ npc.targetNode = Null

C4_Witness == GunfireInIdle /\ npc.status = "PANIC" /\ npc.panicTimer = 13
              /\ Len(navNodes) > 0 /\ npc.pos # SpawnPoint

\* C5 (as amended): a gunfire event fired in IDLE leaves dangerMemory one entry
\* longer when it held fewer than 5 entries; when it held 5 the length stays 5: the
\* oldest entry is evicted, the others keep their order.  Either way the shot is the
\* newest entry.
C5_GunfireRecord ==
    [][(last'.cat = "gunshots" /\ npc.status = "IDLE") =>
          LET old == npc.dangerMemory
              new == npc'.dangerMemory
              kept == IF Len(old) < MemoryCap THEN old ELSE Tail(old)
          IN /\ Len(new) = Len(kept) + 1
             /\ SubSeq(new, 1, Len(kept)) = kept
             /\ new[Len(new)].type = "gunshots"
             /\ new[Len(new)].age = 0]_vars

\* C5 as the specification states it: a gunfire event fired in IDLE leaves
\* dangerMemory exactly one entry longer than before.
C5_Original == GunfireInIdle => Len(npc.dangerMemory) = last.preLen + 1

C5_Witness == GunfireInIdle /\ last.preLen = MemoryCap /\ Len(npc.dangerMemory) = MemoryCap

\* C6: alertLevel stays within [0, 1] in every reachable state.
C6_AlertRange == npc.alertLevel >= 0 /\ npc.alertLevel <= AlertOne

C6_Witness == Tick /\ last.pre = "LOOKING" /\ npc.status = "LOOKING"
              /\ npc.alertLevel = AlertOne /\ Len(npc.dangerMemory) > 0

\* C7: dangerMemory never holds more than 5 entries.
C7_MemoryBounded == Len(npc.dangerMemory) <= MemoryCap

C7_Witness == last.cat = "crash" /\ last.preLen = MemoryCap
              /\ Len(npc.dangerMemory) = MemoryCap

\* C8 as the specification states it: whatever the status, the dangerMemory a tick's
\* consumer has read holds no entry recorded more than 30 s before.
C8_Original ==
    Tick => \A i \in 1..Len(npc.dangerMemory) : npc.dangerMemory[i].age <= PruneAge

NoPendingExpiry == \A i \in 1..Len(timers) : timers[i].kind # "expire"

\* C9 as the specification states it (for a page that defines loadedModels): once
\* every registered entity's lifetime has elapsed no entity is in the world or the
\* scene, and right after the next compaction physicsBodies and physicsMeshes are empty.
C9_Original ==
    (loadedModelsDeclared /\ NoPendingExpiry) =>
        /\ worldBodies = {} /\ sceneMeshes = {}
        /\ last.op = "compact" => (physicsBodies = << >> /\ physicsMeshes = << >>)

\* C10 as the specification states it: when the expiry timer of an entity fires, the
\* index it holds lies inside physicsBodies and is the slot of that very entity.
C10_Original ==
    [][last'.op = "expire" =>
          LET index == Head(timers).arg[1]
              body == Head(timers).arg[2]
          IN index <= Len(physicsBodies) /\ physicsBodies[index] = body]_vars

HasPendingExpiry(body) ==
    \E i \in 1..Len(timers) : timers[i].kind = "expire" /\ timers[i].arg[2] = body

\* C11 as the specification states it: every registered entity has its body removed
\* from the world and its mesh removed from the scene, once and together, when its
\* lifetime elapses.  So a body is in the world exactly as long as its mesh is in the
\* scene, and exactly as long as its removal is still pending.
C11_Original ==
    /\ worldBodies = sceneMeshes
    /\ \A body \in worldBodies : HasPendingExpiry(body)

\* C12 as the specification states it (for a page that defines loadedModels): the
\* sync loop of a frame visits only pairs whose body is in the world and whose mesh
\* is in the scene, never the pair of an entity that has expired.
C12_Original ==
    (loadedModelsDeclared /\ last.op = "animate") =>
        \A i \in SyncedPairs(physicsBodies, physicsMeshes) :
            physicsBodies[i] \in worldBodies /\ physicsMeshes[i] \in sceneMeshes

\* C13 as the specification states it: after every firing of the main event timer,
\* whichever handler ran and whether or not it failed, a next main timer is pending.
C13_Original ==
    last.op = "main" => \E i \in 1..Len(timers) : timers[i].kind = "main"

\* the categories whose handler pushes onto dangerMemory (src/main.js:1737, 1771, 1841)
Recording(cat, threw) == cat \in {"gunshots", "scream"} \/ (cat = "crash" /\ ~threw)

\* C14: an event of the director appends one entry for it to dangerMemory when its
\* category is gunshots or scream, or carCrash whose registrations completed; an event
\* of any other category (flying car, explosion, falling debris, helicopter, running
\* person, or a car crash that threw) leaves dangerMemory exactly as it was.
C14_RecordingCategories ==
    [][last'.cat \in Categories =>
          LET old == npc.dangerMemory
              new == npc'.dangerMemory
              kept == IF Len(old) < MemoryCap THEN old ELSE Tail(old)
          IN IF Recording(last'.cat, last'.threw)
             THEN new = Append(kept, [pos |-> npc'.lastDangerPos, age |-> 0,
                                      type |-> last'.cat])
             ELSE new = old]_vars

\* C14 as the specification states it: every event of the director, of each of the
\* eight categories, leaves a fresh entry for that event at the end of dangerMemory.
C14_Original ==
    last.cat \in Categories =>
        /\ Len(npc.dangerMemory) = Min(MemoryCap, last.preLen + 1)
        /\ npc.dangerMemory[Len(npc.dangerMemory)].age = 0

C14_Witness ==
    /\ last.cat = "helicopter"
    /\ last.preLen > 0
    /\ Len(npc.dangerMemory) = last.preLen

\* C15: when a main event chains, the second event fires 0.8 to 2.3 s after the main
\* event, and the third, when there is one, fires 2 to 4 s after the main event: both
\* timers are armed while the main event's callback runs (whole seconds here).
C15_ChainTiming ==
    /\ last.op = "chain2" => elapsed.main \in 1..2
    /\ last.op = "chain3" => elapsed.main \in 2..4

\* C15 as the specification states it: the third event fires 2 to 4 s later than
\* the second.
C15_Original == last.op = "chain3" => elapsed.second \in 2..4

C15_Witness == last.op = "chain3" /\ elapsed.main = 2 /\ elapsed.second = 0

\* C16: a tick that dispatches to handleIdleState (the status after the panic-timer
\* check is none of PANIC, COWERING, LOOKING) leaves status as it is; and whenever the
\* agent leaves IDLE, the step that did it is a danger-event handler or the sweep
\* callback such a handler started, never a tick.
C16_IdleTickKeepsStatus ==
    /\ (Tick /\ last.mid.status \notin {"PANIC", "COWERING", "LOOKING"}) =>
           npc.status = last.mid.status
    /\ (last.pre = "IDLE" /\ npc.status # "IDLE" /\ last.op # "init") =>
           (last.cat \in Categories \/ last.op = "sweep")

C16_Witness ==
    /\ Tick
    /\ last.pre = "IDLE"
    /\ last.mid.status = "IDLE"
    /\ npc.status = "IDLE"
    /\ Len(npc.dangerMemory) > 0
    /\ npc.targetNode # last.mid.targetNode

\* C17: a gunfire event received while status = COWERING leaves status = COWERING and
\* targetNode unchanged and increases panicTimer by exactly 4.
C17_GunfireWhileCowering ==
    [][(last'.cat = "gunshots" /\ npc.status = "COWERING") =>
          /\ npc'.status = "COWERING"
          /\ npc'.targetNode = npc.targetNode
          /\ npc'.panicTimer = npc.panicTimer + 4]_vars

C17_Witness ==
    /\ last.cat = "gunshots"
    /\ last.pre = "COWERING"
    /\ npc.status = "COWERING"
    /\ npc.targetNode # Null

ClearPending == \E i \in 1..Len(timers) : timers[i].kind = "heliOff" /\ timers[i].rem <= SweepFor

\* C18: a sweep callback runs only while the 8 s timeout of its activation is still
\* pending; once the last pending timeout has fired no sweep callback runs, and the
\* agent is taken from IDLE to COWERING only while such a timeout is pending.
C18_SweepCancelled ==
    /\ last.op = "sweep" => ClearPending
    /\ (last.pre = "IDLE" /\ npc.status = "COWERING" /\ last.op # "init") => ClearPending

C18_Witness ==
    /\ last.op = "heliOff"
    /\ ~ClearPending
    /\ npc.status = "IDLE"
    /\ \E lightPos \in LightPoints : Lt(Dist(npc.pos, lightPos), 50)

\* C19: with an empty NavNode set a tick of updateNPC changes nothing in the agent:
\* status, fleeAfterHide, panicTimer, targetNode, alertLevel, the desired velocity and
\* every other field the state machine writes are as before the tick.
C19_EmptyNavTick ==
    [][(last'.op = "animate" /\ Len(navNodes) = 0) =>
          [npc' EXCEPT !.pos = npc.pos] = npc]_vars

C19_Witness ==
    /\ last.op = "animate"
    /\ Len(navNodes) = 0
    /\ npc.status = "LOOKING"
    /\ npc.alertLevel > 0

-----------------------------------------------------------------------------
(* The spatial selectors on their own: the environment, the danger position *)
(* and the agent position are drawn freely, and a step is one call of a     *)
(* selector from handlePanicState (src/main.js:1089-1091, 1101).           *)

MaxNav == 2
NavPoints == {Vec(0), Vec(10), Vec(30)}
NavSets == {s \in UNION {[1..k -> NavPoints] : k \in 1..MaxNav} :
               \A i, j \in 1..Len(s) : i # j => s[i] # s[j]}
CoverSets == {<< >>, <<Vec(10)>>, <<Vec(40)>>, <<Vec(10), Vec(40)>>, <<Vec(0 - 10), Vec(10)>>}
DangerPoints == {Vec(0), Vec(20), Vec(40), NaNVec(0)}
AgentPoints == {Vec(0), Vec(30)}

InitSelector ==
    /\ navNodes \in NavSets
    /\ coverSpots \in CoverSets
    /\ \E d \in DangerPoints, p \in AgentPoints :
           npc = [InitialNpc EXCEPT !.status = "PANIC", !.lastDangerPos = d, !.pos = p]
    /\ loadedModelsDeclared = TRUE
    /\ timers = << >>
    /\ physicsBodies = << >>
    /\ physicsMeshes = << >>
    /\ worldBodies = {}
    /\ sceneMeshes = {}
    /\ nextId = 1
    /\ delta = 0
    /\ budget = [events |-> 0, seconds |-> 0]
    /\ elapsed = [main |-> Never, second |-> Never]
    /\ last = Quiet

Select(op, node) ==
    /\ npc' = [npc EXCEPT !.targetNode = node]
    /\ last' = [Quiet EXCEPT !.op = op, !.pre = npc.status,
                             !.preLen = Len(npc.dangerMemory),
                             !.mid = [NoMid EXCEPT !.targetNode = npc.targetNode]]
    /\ UNCHANGED <<Env, timers, physicsBodies, physicsMeshes, worldBodies, sceneMeshes,
                   nextId, delta, budget, elapsed>>

\* what the event handlers and the ticks write between two calls of a selector,
\* none of it an argument of the selectors
OtherState == {[alertLevel |-> a, fleeAfterHide |-> f, dangerMemory |-> m] :
                  a \in {0, AlertOne}, f \in BOOLEAN,
                  m \in {<< >>, <<[pos |-> Vec(40), age |-> 0, type |-> "gunshots"]>>}}

Disturb ==
    /\ \E o \in OtherState :
           npc' = [npc EXCEPT !.alertLevel = o.alertLevel, !.fleeAfterHide = o.fleeAfterHide,
                              !.dangerMemory = o.dangerMemory]
    /\ npc' # npc
    /\ UNCHANGED <<Env, timers, physicsBodies, physicsMeshes, worldBodies, sceneMeshes,
                   nextId, delta, budget, elapsed, last>>

SelectSafeNode == Select("getSafeNode", getSafeNode(npc.lastDangerPos, npc.pos))
SelectFarSafeNode == Select("getFarSafeNode", getFarSafeNode(npc.lastDangerPos, npc.pos))

NextSelector == SelectSafeNode \/ SelectFarSafeNode \/ Disturb

SpecSelector == InitSelector /\ [][NextSelector]_vars

Selected == last.op \in {"getSafeNode", "getFarSafeNode"}

\* C20: with at least one NavNode, getSafeNode and getFarSafeNode return a defined
\* point that is an element of the CoverSpot or NavNode set, whatever the danger
\* position (NaN included), the agent position and the CoverSpot set (empty included),
\* and also when no point qualifies.
C20_SelectorsDefined ==
    Selected => /\ npc.targetNode # Null
                /\ npc.targetNode \in SeqToSet(navNodes) \cup SeqToSet(coverSpots)

C20_Witness ==
    /\ Selected
    /\ SafeCover(coverSpots, npc.lastDangerPos) = << >>
    /\ SafeNodes(navNodes, npc.lastDangerPos) = << >>
    /\ \A i \in 1..Len(navNodes) : ~Gt(Dist(navNodes[i], npc.lastDangerPos), 0)
    /\ npc.targetNode = navNodes[1]

NoneQualifies ==
    /\ SafeCover(coverSpots, npc.lastDangerPos) = << >>
    /\ SafeNodes(navNodes, npc.lastDangerPos) = << >>

\* the first node, in array order, that no node is strictly further from the danger than
FirstFurthest(nodes, dangerPos) ==
    LET far(k) == \A j \in 1..Len(nodes) :
                      ~Gt(Dist(nodes[j], dangerPos), Dist(nodes[k], dangerPos))
    IN nodes[CHOOSE k \in 1..Len(nodes) : far(k) /\ \A j \in 1..(k - 1) : ~far(j)]

\* C21: with no CoverSpot farther than 8 from the danger and no NavNode farther than
\* 12 from it, getSafeNode returns the NavNode whose distance from the danger is
\* maximal, the first such node in array order when several tie.
C21_FallbackFurthest ==
    (last.op = "getSafeNode" /\ NoneQualifies) =>
        npc.targetNode = FirstFurthest(navNodes, npc.lastDangerPos)

C21_Witness ==
    /\ last.op = "getSafeNode"
    /\ NoneQualifies
    /\ Len(navNodes) = 2
    /\ Dist(navNodes[1], npc.lastDangerPos) = Dist(navNodes[2], npc.lastDangerPos)
    /\ Dist(navNodes[1], npc.lastDangerPos) > 0
    /\ npc.targetNode = navNodes[1]

-----------------------------------------------------------------------------
(* The viewpoint controller on its own, src/main.js:958-993 and the look    *)
(* steps of the four state handlers.  Angles are whole degrees, offsets     *)
(* from the camera are in tenths of a unit, npc.shake is in hundredths and  *)
(* smoothing factors are in hundredths.  The status and the alert level of  *)
(* a behaviour are fixed; each step is the look part of one tick.           *)

MaxLooks == 7         \* look steps in one behaviour of SpecViewpoint
NaNAngle == 0 - 1000
NaNTarget == <<NaN>>

\* THREE.MathUtils.lerp: x + (y - x) * t, NaN when an operand is
Lerp(x, y, t) ==
    IF x = NaNAngle \/ y = NaNAngle THEN NaNAngle ELSE x + ((y - x) * t) \div 100

\* THREE.MathUtils.clamp: Math.max(min, Math.min(max, value)), NaN for NaN
Clamp(value, lo, hi) == IF value = NaNAngle THEN NaNAngle ELSE Max(lo, Min(hi, value))

\* Math.atan2(dx, dz) to the nearest 45 degrees
TargetYaw(t) ==
    IF Len(t) = 1 THEN NaNAngle
    ELSE LET ax == Abs(t[1])
             az == Abs(t[3])
             base == IF ax = 0 THEN 0
                     ELSE IF 5 * ax < 2 * az THEN 0
                     ELSE IF 5 * az < 2 * ax THEN 90
                     ELSE 45
             mag == IF t[3] >= 0 THEN base ELSE 180 - base
         IN IF t[1] < 0 THEN 0 - mag ELSE mag

\* Math.atan2(dy, horizontalDist) to the nearest 30 degrees
TargetPitch(t) ==
    IF Len(t) = 1 THEN NaNAngle
    ELSE LET horizontalDist == ISqrt(t[1] * t[1] + t[3] * t[3])
             ay == Abs(t[2])
             mag == IF 1000 * ay <= 268 * horizontalDist THEN 0
                    ELSE IF ay <= horizontalDist THEN 30
                    ELSE IF 1000 * ay <= 3732 * horizontalDist THEN 60
                    ELSE 90
         IN IF t[2] < 0 THEN 0 - mag ELSE mag

\* safeLookAt with the pitch left as atan2 gives it
safeLookAtUnclamped(n, t, smoothing) ==
    [n EXCEPT !.yaw = Lerp(n.yaw, TargetYaw(t), smoothing),
              !.pitch = Lerp(n.pitch, TargetPitch(t), smoothing)]

\* src/main.js:959-976; t is targetPos - camera.position
safeLookAt(n, t, smoothing) ==
    LET clampedPitch == Clamp(TargetPitch(t), 0 - 60, 60)
    IN [n EXCEPT !.yaw = Lerp(n.yaw, TargetYaw(t), smoothing),
                 !.pitch = Lerp(n.pitch, clampedPitch, smoothing)]

\* the smoothing factor each handler passes (src/main.js:1165, 1261, 1310, 1417-1418)
Smoothing(n) ==
    CASE n.status = "PANIC" -> 18
      [] n.status = "COWERING" -> 6
      [] n.status = "LOOKING" -> 10
      [] OTHER -> IF n.alertLevel > 6 THEN 8 ELSE 5

\* the factor npc.shake is multiplied by before it is added to the look target
\* (src/main.js:1160, 1256, 1305, 1410-1412), in hundredths
Intensity(n) ==
    CASE n.status = "PANIC" -> IF n.fleeAfterHide THEN 20 ELSE 35
      [] n.status = "COWERING" -> 8 + 3 * n.recentDangerCount
      [] n.status = "LOOKING" -> 10 + 5 * Len(n.dangerMemory)
      [] OTHER -> 20

\* lookTarget.x += sin(..) * npc.shake * intensity; lookTarget.z += cos(..) * ...
Shaken(n, base, phase) ==
    IF Len(base) = 1 THEN base
    ELSE LET offset == (n.shake * Intensity(n)) \div 1000
         IN <<base[1] + phase[1] * offset, base[2], base[3] + phase[2] * offset>>

\* src/main.js:1185, 1264-1265, 1313-1314, 1421-1422 at dt = 0.1
ShakeTarget(n) ==
    CASE n.status = "PANIC" -> 250
      [] n.status = "COWERING" -> Min(100 + 20 * n.recentDangerCount, 200)
      [] n.status = "LOOKING" -> 80
      [] OTHER -> 15 + 2 * n.alertLevel
ShakeRate(n) ==
    CASE n.status = "PANIC" -> 30
      [] n.status = "COWERING" -> 20
      [] OTHER -> 10

\* the look part of a handler: the shaken target, safeLookAt, the new shake
LookStep(n, base, phase) ==
    LET a == safeLookAt(n, Shaken(n, base, phase), Smoothing(n))
    IN [a EXCEPT !.shake = Lerp(a.shake, ShakeTarget(n), ShakeRate(n))]

\* look targets relative to the camera: level ahead and to the side, down at the
\* ground while hiding (src/main.js:1236-1240), the cover direction (1244-1248),
\* straight overhead and underfoot, and a danger position with a NaN coordinate
LookTargets == {<<0, 0, 15>>, <<30, 0, 0>>, <<0, 0 - 12, 5>>, <<0, 0 - 5, 30>>,
                <<0, 50, 0>>, <<0, 0 - 50, 0>>, NaNTarget}
\* the values of the sine and the cosine of the shake offset
Phases == {<<0, 1>>, <<1, 0>>, <<0 - 1, 0 - 1>>}

InitViewpoint ==
    /\ navNodes = Street
    /\ coverSpots = << >>
    /\ \E s \in {"IDLE", "LOOKING", "COWERING", "PANIC"}, a \in {0, AlertOne} :
           npc = [InitialNpc EXCEPT !.status = s, !.alertLevel = a,
                                    !.targetNode = Street[2]]
    /\ loadedModelsDeclared = TRUE
    /\ timers = << >>
    /\ physicsBodies = << >>
    /\ physicsMeshes = << >>
    /\ worldBodies = {}
    /\ sceneMeshes = {}
    /\ nextId = 1
    /\ delta = 0
    /\ budget = [events |-> MaxLooks, seconds |-> 0]
    /\ elapsed = [main |-> Never, second |-> Never]
    /\ last = Quiet

Look ==
    /\ budget.events > 0
    /\ budget' = [budget EXCEPT !.events = budget.events - 1]
    /\ \E base \in LookTargets, phase \in Phases :
           LET steady == safeLookAt(npc, base, Smoothing(npc))
           IN /\ npc' = LookStep(npc, base, phase)
              /\ last' = [Quiet EXCEPT !.op = "look", !.pre = npc.status,
                                       !.look = [yaw |-> steady.yaw, pitch |-> steady.pitch]]
    /\ UNCHANGED <<Env, timers, physicsBodies, physicsMeshes, worldBodies, sceneMeshes,
                   nextId, delta, elapsed>>

NextViewpoint == Look

SpecViewpoint == InitViewpoint /\ [][NextViewpoint]_vars

\* C23: the agent's pitch never exceeds 60 degrees in absolute value, after any
\* sequence of safeLookAt calls with any target point (directly overhead or underfoot
\* included) and any of the smoothing factors the states use.  (A target with a NaN
\* coordinate makes the pitch NaN, which is not above 60 either.)
C23_PitchClamped ==
    npc.pitch = NaNAngle \/ (npc.pitch >= 0 - 60 /\ npc.pitch <= 60)

C23_Witness ==
    /\ last.op = "look"
    /\ npc.pitch > 30
    /\ npc.pitch # NaNAngle

\* C24 as the specification states it: npc.shake never affects yaw or pitch, so
\* after every look step yaw and pitch are what the same step gives with shake = 0.
C24_Original ==
    last.op = "look" => (npc.yaw = last.look.yaw /\ npc.pitch = last.look.pitch)

-----------------------------------------------------------------------------
(* triggerChaos with its roll: eventType = Math.random() in hundredths,     *)
(* src/main.js:1446-1465.  One event per behaviour.                         *)

Rolls == 0..99

\* Category with the thresholds compared by <= instead of <
CategoryInclusive(eventType) ==
    IF eventType <= 20 THEN "flyingCar"
    ELSE IF eventType <= 35 THEN "explosion"
    ELSE IF eventType <= 50 THEN "debris"
    ELSE IF eventType <= 60 THEN "helicopter"
    ELSE IF eventType <= 72 THEN "gunshots"
    ELSE IF eventType <= 82 THEN "scream"
    ELSE IF eventType <= 92 THEN "crash"
    ELSE "runner"

\* src/main.js:1449-1465, the if / else if chain
Category(eventType) ==
    IF eventType < 20 THEN "flyingCar"
    ELSE IF eventType < 35 THEN "explosion"
    ELSE IF eventType < 50 THEN "debris"
    ELSE IF eventType < 60 THEN "helicopter"
    ELSE IF eventType < 72 THEN "gunshots"
    ELSE IF eventType < 82 THEN "scream"
    ELSE IF eventType < 92 THEN "crash"
    ELSE "runner"

InitRoll ==
    /\ Constructed
    /\ timers = << >>
    /\ budget = [events |-> MaxChaos, seconds |-> 0]

RolledChaos ==
    \E eventType \in Rolls : \E w \in triggerChaos(World, Category(eventType)) :
        /\ budget.events > 0
        /\ Bounded(w)
        /\ Apply(w)
        /\ budget' = [budget EXCEPT !.events = budget.events - 1]
        /\ last' = [Quiet EXCEPT !.op = "chaos", !.cat = Category(eventType),
                                 !.roll = eventType, !.pre = npc.status,
                                 !.threw = w.threw, !.preLen = Len(npc.dangerMemory)]
        /\ UNCHANGED <<Env, delta, elapsed>>

NextRoll == RolledChaos

SpecRoll == InitRoll /\ [][NextRoll]_vars

\* the interval widths the specification gives, in percent and in roll order
Widths == <<20, 15, 15, 10, 12, 10, 10, 8>>
RollOrder == <<"flyingCar", "explosion", "debris", "helicopter", "gunshots", "scream",
               "crash", "runner">>
RECURSIVE Upto(_)
Upto(k) == IF k = 0 THEN 0 ELSE Upto(k - 1) + Widths[k]
Documented(r) == RollOrder[CHOOSE k \in 1..8 : Upto(k - 1) <= r /\ r < Upto(k)]

\* C25: a firing of triggerChaos with roll r runs exactly the handler of the one
\* category whose interval holds r, the intervals having widths 20, 15, 15, 10, 12,
\* 10, 10 and 8 percent in roll order and covering [0,1) without gap or overlap.
C25_Thresholds ==
    [][last'.op = "chaos" =>
          /\ \E k \in 1..8 : /\ Upto(k - 1) <= last'.roll /\ last'.roll < Upto(k)
                             /\ \A j \in 1..8 : (Upto(j - 1) <= last'.roll /\ last'.roll < Upto(j))
                                                    => j = k
          /\ last'.cat = Documented(last'.roll)
          /\ \E w \in triggerChaos(World, Documented(last'.roll)) :
                 /\ npc' = w.npc
                 /\ timers' = Watch(w.timers, npc.status, w.npc.status)
                 /\ worldBodies' = w.worldBodies]_vars

C25_Witness ==
    /\ last.op = "chaos"
    /\ last.roll = 92
    /\ last.cat = "runner"
    /\ ~last.threw
    /\ npc.status = "LOOKING"

\* C26 as the specification states it: no event handler of any category takes the
\* agent out of PANIC or COWERING into LOOKING or IDLE.
C26_Original ==
    (last.cat \in Categories /\ last.pre \in {"PANIC", "COWERING"}) =>
        npc.status \notin {"LOOKING", "IDLE"}

-----------------------------------------------------------------------------
(* The agent from the last second of a hiding: the state Spec reaches when a *)
(* helicopter event turned the agent to LOOKING, a tick returned it to IDLE *)
(* and the sweep found it beside the cover spot two seconds ago.  One more  *)
(* chaos event may arrive at any moment.                                   *)

InitFlee ==
    /\ navNodes = Street
    /\ coverSpots = <<Street[2]>>
    /\ loadedModelsDeclared \in BOOLEAN
    /\ npc = [InitialNpc EXCEPT !.pos = Street[2], !.lastPos = Street[2],
                                !.stuckTime = StuckCap, !.status = "COWERING",
                                !.panicTimer = 1, !.targetNode = Street[2],
                                !.lastDangerPos = Vec(15), !.alertLevel = 14,
                                !.recentDangerCount = 1]
    /\ timers = <<[kind |-> "heliOff", rem |-> 6, arg |-> << >>],
                 [kind |-> "decay", rem |-> 8, arg |-> << >>]>>
    /\ physicsBodies = << >>
    /\ physicsMeshes = << >>
    /\ worldBodies = {}
    /\ sceneMeshes = {}
    /\ nextId = 1
    /\ delta = 0
    /\ budget = [events |-> MaxChaos, seconds |-> Unlimited]
    /\ elapsed = [main |-> Never, second |-> Never]
    /\ last = Quiet

SpecFlee == InitFlee /\ [][Next]_vars

\* C27 as the specification states it: in every reachable state fleeAfterHide = true
\* implies status = PANIC.
C27_Original == npc.fleeAfterHide => npc.status = "PANIC"

\* the target the specification's rule selects for an agent in PANIC
ClaimedTarget(m) ==
    IF m.fleeAfterHide THEN getFarSafeNode(PrimaryDanger(m), m.pos)
    ELSE getSafeNode(PrimaryDanger(m), m.pos)

\* C28 as the specification states it: whenever a tick has the agent in PANIC pick a
\* targetNode (none set) or re-pick it (stuckTime > 1 s), the target it goes on with
\* is getFarSafeNode if fleeAfterHide and getSafeNode otherwise, taken against the
\* dangerMemory entry nearest to the agent, or lastDangerPos when the memory is empty.
C28_Original ==
    [][(last'.op = "animate" /\ ~NoNavNodes(npc)) =>
          \A moved \in Step(npc, Min(delta, DtMax)) :
              \A m \in AfterTimer(moved, Min(delta, DtMax)) :
                  (m.status = "PANIC" /\ (m.targetNode = Null \/ m.stuckTime > 1)) =>
                      Approach(m).targetNode = ClaimedTarget(m)]_vars

\* C29: when a tick finds the agent in PANIC within 1.5 units of its targetNode, the
\* state after the tick is IDLE with fleeAfterHide = false, panicTimer = 0 and
\* targetNode cleared if fleeAfterHide was true, and otherwise COWERING with
\* targetNode cleared and panicTimer in [6,12].
C29_Arrival ==
    (Tick /\ last.mid.status = "PANIC" /\ last.near) =>
        IF last.mid.fleeAfterHide
        THEN /\ npc.status = "IDLE"
             /\ ~npc.fleeAfterHide
             /\ npc.panicTimer = 0
             /\ npc.targetNode = Null
        ELSE /\ npc.status = "COWERING"
             /\ ~npc.fleeAfterHide
             /\ npc.targetNode = Null
             /\ npc.panicTimer \in 6..12

C29_Witness ==
    /\ Tick
    /\ last.pre = "PANIC"
    /\ last.mid.status = "PANIC"
    /\ last.near
    /\ last.mid.fleeAfterHide
    /\ npc.status = "IDLE"

CloseToDanger == Lt(Dist(npc.pos, npc.lastDangerPos), 100)

\* C30: a LOOKING tick never returns the agent to IDLE while it is closer than 10
\* units to lastDangerPos: the agent either keeps looking or, when the transition
\* roll succeeds, is in PANIC with panicTimer in [8,12] and targetNode cleared.
C30_CloseLookPanics ==
    (Tick /\ last.mid.status = "LOOKING" /\ CloseToDanger) =>
        \/ npc.status = "LOOKING"
        \/ /\ npc.status = "PANIC"
           /\ npc.panicTimer \in 8..12
           /\ npc.targetNode = Null

C30_Witness ==
    /\ Tick
    /\ last.mid.status = "LOOKING"
    /\ CloseToDanger
    /\ npc.status = "PANIC"
    /\ npc.panicTimer = 8

\* C31: no danger-event handler and no callback it schedules writes fleeAfterHide;
\* only a tick does.  An event arriving while fleeAfterHide is true may change
\* status, panicTimer, targetNode and dangerMemory but leaves fleeAfterHide true.
C31_EventsKeepFlee ==
    [][last'.op # "animate" => npc'.fleeAfterHide = npc.fleeAfterHide]_vars

C31_Witness ==
    /\ last.cat = "crash"
    /\ ~last.threw
    /\ last.pre = "PANIC"
    /\ npc.fleeAfterHide
    /\ npc.targetNode = Null
    /\ Len(npc.dangerMemory) > last.preLen

\* the decrements still to come: each was scheduled by an event at most 10 s ago
PendingDecays == {i \in 1..Len(timers) : timers[i].kind = "decay"}

\* C32: recentDangerCount is never negative and at every moment equals the number of
\* chaos events whose handler completed within the preceding 10 s: a completed
\* firing increments it once and schedules one decrement 10 s later, a firing whose
\* handler threw does neither, and each decrement takes it down by one.
C32_RecentDangerCount ==
    [][/\ npc'.recentDangerCount >= 0
       /\ npc'.recentDangerCount = Cardinality({i \in 1..Len(timers') : timers'[i].kind = "decay"})
       /\ \A i \in 1..Len(timers') :
              timers'[i].kind = "decay" => timers'[i].rem \in 0..DecayAfter
       /\ (last'.cat \in Categories /\ ~last'.threw) =>
              npc'.recentDangerCount = npc.recentDangerCount + 1
       /\ (last'.cat \in Categories /\ last'.threw) =>
              npc'.recentDangerCount = npc.recentDangerCount
       /\ last'.op = "decay" => npc'.recentDangerCount = npc.recentDangerCount - 1]_vars

C32_Witness ==
    /\ last.op = "decay"
    /\ npc.recentDangerCount = 1
    /\ Cardinality(PendingDecays) = 1

-----------------------------------------------------------------------------
(* The danger memory over both of its ways out: a burst of events that fills *)
(* it, or a single event followed by unlimited time in which it is pruned.  *)

InitForget ==
    /\ Constructed
    /\ Len(navNodes) > 0
    /\ loadedModelsDeclared
    /\ timers = << >>
    /\ budget \in {[events |-> MaxBurst, seconds |-> BurstSeconds],
                  [events |-> MaxChaos, seconds |-> Unlimited]}

SpecForget == InitForget /\ [][NextMemory]_vars

\* C33: dangerMemory is kept oldest-first (ages never increase along it), an entry
\* is never modified after creation (it only grows older), and an entry leaves the
\* memory only by the 30 s prune or by capacity eviction, which removes the oldest.
C33_OldestFirst ==
    [][LET old == npc.dangerMemory
           new == npc'.dangerMemory
           kept == IF Len(old) < MemoryCap THEN old ELSE Tail(old)
       IN /\ \A i, j \in 1..Len(new) : i < j => new[i].age >= new[j].age
          /\ CASE last'.op = "advance" ->
                      /\ Len(new) = Len(old)
                      /\ \A i \in 1..Len(old) :
                             /\ new[i].pos = old[i].pos
                             /\ new[i].type = old[i].type
                             /\ new[i].age >= old[i].age
               [] last'.op = "handler" ->
                      /\ Len(new) = Len(kept) + 1
                      /\ SubSeq(new, 1, Len(kept)) = kept
               [] last'.op = "animate" ->
                      \/ new = old
                      \/ new = SelectSeq(old, LAMBDA d : d.age < PruneAge)
               [] OTHER -> new = old]_vars

C33_Witness ==
    /\ last.op = "animate"
    /\ last.preLen = 1
    /\ npc.dangerMemory = << >>

\* the first element of seq, in order, whose score no element's score is below
FirstLowest(seq, Score(_)) ==
    LET low(k) == \A j \in 1..Len(seq) : Score(seq[k]) <= Score(seq[j])
    IN seq[CHOOSE k \in 1..Len(seq) : low(k) /\ \A j \in 1..(k - 1) : ~low(j)]

\* C34: whenever at least one CoverSpot lies farther than 8 from the danger,
\* getSafeNode returns the qualifying CoverSpot that minimises distanceToAgent -
\* 0.5 * distanceFromDanger (scores doubled here), the first in array order on ties,
\* whatever NavNodes qualify; only when no CoverSpot qualifies does it return the
\* NavNode farther than 12 from the danger that is closest to the agent.
C34_CoverFirst ==
    last.op = "getSafeNode" =>
        LET d == npc.lastDangerPos
            p == npc.pos
            cover == SelectSeq(coverSpots, LAMBDA s : Gt(Dist(s, d), 80))
            nodes == SelectSeq(navNodes, LAMBDA s : Gt(Dist(s, d), 120))
            CoverScore(s) == 2 * Dist(s, p) - Dist(s, d)
            NodeScore(s) == Dist(s, p)
        IN IF Len(cover) > 0 THEN npc.targetNode = FirstLowest(cover, CoverScore)
           ELSE Len(nodes) > 0 => npc.targetNode = FirstLowest(nodes, NodeScore)

C34_Witness ==
    /\ last.op = "getSafeNode"
    /\ coverSpots = <<Vec(0 - 10), Vec(10)>>
    /\ npc.pos = Vec(0)
    /\ npc.lastDangerPos = Vec(0)
    /\ Vec(30) \in SeqToSet(navNodes)
    /\ npc.targetNode = Vec(0 - 10)

\* the first element of seq, in order, whose score no element's score is above
FirstHighest(seq, Score(_)) ==
    LET high(k) == \A j \in 1..Len(seq) : Score(seq[k]) >= Score(seq[j])
    IN seq[CHOOSE k \in 1..Len(seq) : high(k) /\ \A j \in 1..(k - 1) : ~high(j)]

\* C35: getFarSafeNode returns, among the CoverSpots farther than 8 from the danger
\* followed by the NavNodes farther than 12 from it, the point that maximises
\* distanceFromDanger - 0.15 * distanceToAgent (scores times 20 here), the first in
\* candidate order on ties, and when there is no candidate the NavNode farthest
\* from the danger.
C35_FarthestCandidate ==
    last.op = "getFarSafeNode" =>
        LET d == npc.lastDangerPos
            p == npc.pos
            candidates == SelectSeq(coverSpots, LAMBDA s : Gt(Dist(s, d), 80))
                          \o SelectSeq(navNodes, LAMBDA s : Gt(Dist(s, d), 120))
            FarScore(s) == 20 * Dist(s, d) - 3 * Dist(s, p)
        IN IF Len(candidates) > 0 THEN npc.targetNode = FirstHighest(candidates, FarScore)
           ELSE npc.targetNode = FirstFurthest(navNodes, d)

C35_Witness ==
    /\ last.op = "getFarSafeNode"
    /\ coverSpots = <<Vec(0 - 10), Vec(10)>>
    /\ npc.pos = Vec(0)
    /\ npc.lastDangerPos = Vec(0)
    /\ navNodes = <<Vec(10), Vec(0)>>
    /\ npc.targetNode = Vec(0 - 10)

PendingMain == {i \in 1..Len(timers) : timers[i].kind = "main"}

\* C36 as the specification states it: after initialisation exactly one main
\* chaos-scheduling timer is pending at every moment, and a chained follow-up event
\* schedules no further event and no further chain.
C36_Original ==
    /\ Cardinality(PendingMain) = 1
    /\ last.op \in {"chain2", "chain3"} =>
           \A i \in 1..Len(timers) : timers[i].kind = "chain" => timers[i].arg = <<3>>

\* C37 (as the specification states it): a deferred escalation (falling debris, scream,
\* running bystander) moves the agent from LOOKING to PANIC only if the agent has been
\* LOOKING without interruption since the event that armed it; an agent that left LOOKING
\* and came back to it through a later event is not escalated by the earlier callback.
C37_Original ==
    [][(last'.op \in Escalations /\ npc.status = "LOOKING" /\ npc'.status = "PANIC")
         => Len(Head(timers).arg) = 0]_vars

\* C39 (as the specification states it): one tick of updateNPC changes status at most
\* once; the status at the end of a tick is the status at its start or one edge away,
\* in particular never IDLE at the end of a tick that started in COWERING.
C39_Original ==
    Tick => /\ ~(last.pre # last.mid.status /\ last.mid.status # npc.status)
            /\ ~(last.pre = "COWERING" /\ npc.status = "IDLE")

Empty(e) == e = NullEntry \/ e = HoleEntry

\* C40: physicsBodies and physicsMeshes stay parallel: they have the same length and at
\* every index either both hold the body and the mesh of one same entity or both are
\* empty (null or hole), whatever the interleaving of spawns, expiries and compactions.
C40_Parallel ==
    /\ Len(physicsBodies) = Len(physicsMeshes)
    /\ \A i \in 1..Len(physicsBodies) :
          \/ ~Empty(physicsBodies[i]) /\ physicsMeshes[i] = physicsBodies[i]
          \/ Empty(physicsBodies[i]) /\ Empty(physicsMeshes[i])

\* an expiry that ran after a compaction wrote past the end of the shortened arrays,
\* next to a live entity
C40_Witness ==
    /\ last.op = "expire"
    /\ \E i \in 1..Len(physicsBodies) : physicsBodies[i] = HoleEntry
    /\ \E i \in 1..Len(physicsBodies) : ~Empty(physicsBodies[i])

------------------------------------------------------------------------------
(* Settling: the agent at the end of a COWERING on the authored street, one   *)
(* more helicopter roll of the director whose light stays away from the       *)
(* agent, and then no event at all; frames keep being drawn, time keeps       *)
(* passing and due timers fire.                                               *)

InitSettle == InitFlee /\ loadedModelsDeclared

\* src/main.js:1455-1456: triggerChaos rolling the helicopter search
SearchEvent == \E w \in triggerChaos(World, "helicopter") : Event("chaos", "helicopter", w)

NextSettle ==
    \/ animate
    \/ Advance
    \/ SearchEvent
    \/ DecayTimer
    \/ HeliOffTimer

\* requestAnimationFrame keeps calling animate, the clock runs, due timeouts are run,
\* and Math.random() < panicChance (src/main.js:1316-1327) does not fail for ever: some
\* tick takes the agent out of LOOKING
Fairness ==
    /\ WF_vars(animate)
    /\ WF_vars(Advance)
    /\ WF_vars(DecayTimer)
    /\ WF_vars(HeliOffTimer)
    /\ SF_vars(animate /\ npc.status = "LOOKING" /\ npc'.status # "LOOKING")

SpecSettle == InitSettle /\ [][NextSettle]_vars /\ Fairness

Settled == npc.status = "IDLE" /\ ~npc.fleeAfterHide

\* C38 (as the specification states it): with a non-empty navNodes and no further
\* danger event, the agent eventually is IDLE with fleeAfterHide = false, from every
\* reachable state, when frames keep being drawn and the LOOKING roll is resolved fairly.
C38_Original == (Len(navNodes) > 0 /\ budget.events = 0) ~> Settled

\* the status alone does come back to IDLE in every such behaviour
CalmAgain == (Len(navNodes) > 0 /\ budget.events = 0) ~> (npc.status = "IDLE")

====
